---- MODULE Spec2Model ----
(***************************************************************************)
(* Slot-filling dialogue manager of the real-estate chat server:           *)
(*   src/server/functions.ts  (handlers, dispatcher, mergeSlots,           *)
(*                             getMissingSlots)                            *)
(*   src/server/routes.ts     (POST /api/conversations/:id/messages)       *)
(*   src/server/storage.ts    (MemStorage: conversations and messages)     *)
(*   src/client/src/pages/chat.tsx  (ChatPage: selection, sends, streaming *)
(*                             text)                                       *)
(*                                                                         *)
(* Specifications:                                                         *)
(*   SpecSlots     mergeSlots and getMissingSlots on drawn arguments       *)
(*   Spec          two chat requests that may overlap, from an empty store *)
(*   SpecTurn      one chat request on a store left by earlier requests    *)
(*   SpecTurnLive  SpecTurn with every awaited call returning or failing   *)
(*   SpecStorage   MemStorage alone: deletions and further messages        *)
(*   SpecHistory   one chat request after earlier turns, with clearing     *)
(*   SpecPage      the chat page of the browser (chat.tsx) and its streams *)
(*                                                                         *)
(* Optional values.  A slot field that is null or undefined in the         *)
(* TypeScript code is Unset (the empty tuple); a field holding v is        *)
(* the one-element tuple <<v>>.  null and undefined are not told apart:    *)
(* every test the code makes on a field (!x, x || y) treats them alike.    *)
(***************************************************************************)
EXTENDS Integers, Sequences, FiniteSets, TLC

VARIABLES
    \* ---- pure-function harness (functions.ts helpers) ----
    existingSlots,   \* first argument of mergeSlots
    newSlots,        \* second argument of mergeSlots
    mergeResult,     \* value returned by mergeSlots(existingSlots, newSlots)
    missingResult,   \* value returned by getMissingSlots(mergeResult)
    fpc,             \* position of the harness: "input", "merged", "checked"
    \* ---- server state ----
    conversations,   \* MemStorage.conversations: conversations[id] is TRUE while
                     \* the map has key id; Len + 1 is currentConversationId
    messages,        \* MemStorage.messages: messages[id] is the row stored under
                     \* id (NoMessage once deleted); Len + 1 is currentMessageId
    sessions,        \* session store: session id -> [exists, slots]
    turn,            \* the chat requests of the run: each one's handler state
    \* ---- browser ----
    page             \* the chat page (chat.tsx): its React state and the
                     \* requests it has in flight

slotVars == <<existingSlots, newSlots, mergeResult, missingResult, fpc>>

storeVars == <<conversations, messages, sessions>>

serverVars == <<conversations, messages, sessions, turn>>

----------------------------------------------------------------------------
\* Slot model (shared schema: slotSchema / intentSchema; functions.ts 13-47)

Unset == <<>>

Some(v) == <<v>>

\* The positive budget amount drawn as an input; 0 is always drawn too.
MaxBudget == 1

ActionValues == {"buy", "rent"}

CategoryValues == {"residential", "commercial"}

TypeValues == {"flat", "villa", "plot", "house"}

\* Free text: the empty string and a city name.
LocationValues == {"", "Pune"}

BudgetValues == {0, MaxBudget}

IntentValues == {"property_query", "general_info", "fallback"}

Opt(S) == {Unset} \cup {Some(v) : v \in S}

\* Every record slotSchema.parse accepts.
Slots ==
    [action : Opt(ActionValues), category : Opt(CategoryValues),
     type : Opt(TypeValues), location : Opt(LocationValues),
     budget_min : Opt(BudgetValues), budget_max : Opt(BudgetValues)]

EmptySlots ==
    [action |-> Unset, category |-> Unset, type |-> Unset,
     location |-> Unset, budget_min |-> Unset, budget_max |-> Unset]

SlotFields == {"action", "category", "type", "location", "budget_min", "budget_max"}

\* A field is present when it is not unset (spec.md section 4.1).
Present(x) == x # Unset

----------------------------------------------------------------------------
\* JavaScript truthiness of an optional string / an optional number.

FalsyStr(x) == x = Unset \/ x = Some("")

FalsyNum(x) == x = Unset \/ x = Some(0)

\* a || b on optional strings / numbers
OrStr(a, b) == IF FalsyStr(a) THEN b ELSE a

OrNum(a, b) == IF FalsyNum(a) THEN b ELSE a

----------------------------------------------------------------------------
\* functions.ts 273-282

mergeSlots(existing, new) ==
    [action     |-> OrStr(new.action, existing.action),
     category   |-> OrStr(new.category, existing.category),
     type       |-> OrStr(new.type, existing.type),
     location   |-> OrStr(new.location, existing.location),
     budget_min |-> OrNum(new.budget_min, existing.budget_min),
     budget_max |-> OrNum(new.budget_max, existing.budget_max)]

\* functions.ts 260-270: the labels pushed, in the order of the five tests.
LabelAction == "action (buy/rent)"

LabelCategory == "category (residential/commercial)"

LabelType == "type (flat/villa/plot/house)"

LabelLocation == "location"

LabelBudget == "budget"

getMissingSlots_budgetFirst(slots) ==
    (IF FalsyNum(slots.budget_min) /\ FalsyNum(slots.budget_max)
        THEN <<LabelBudget>> ELSE <<>>)
    \o (IF FalsyStr(slots.action) THEN <<LabelAction>> ELSE <<>>)
    \o (IF FalsyStr(slots.category) THEN <<LabelCategory>> ELSE <<>>)
    \o (IF FalsyStr(slots.type) THEN <<LabelType>> ELSE <<>>)
    \o (IF FalsyStr(slots.location) THEN <<LabelLocation>> ELSE <<>>)

getMissingSlots(slots) ==
    (IF FalsyStr(slots.action) THEN <<LabelAction>> ELSE <<>>)
    \o (IF FalsyStr(slots.category) THEN <<LabelCategory>> ELSE <<>>)
    \o (IF FalsyStr(slots.type) THEN <<LabelType>> ELSE <<>>)
    \o (IF FalsyStr(slots.location) THEN <<LabelLocation>> ELSE <<>>)
    \o (IF FalsyNum(slots.budget_min) /\ FalsyNum(slots.budget_max)
        THEN <<LabelBudget>> ELSE <<>>)

----------------------------------------------------------------------------
\* Bounds of the server model.

\* Conversations that can be created: ids 1..MaxConversations.
MaxConversations == 1

\* routes.ts 218-219: the reply is written in slices of ten characters.
ChunkSize == 10

\* Length of the longest reply text: one full slice and a shorter last one.
MaxReplyLen == 15

\* Largest number of properties a search returns.
MaxMatches == 1

\* The chat requests of a run; they may overlap in any way or follow one another.
Turns == {"t1", "t2"}

ConvIds == 1..MaxConversations

\* routes.ts 23 and 84: each conversation carries its own generated session
\* id; the id of conversation c is modelled as c.
SessionOf(c) == c

SessionIds == ConvIds

----------------------------------------------------------------------------
\* Function-call arguments and results.

\* An action outside the enum: slotSchema.parse rejects it.
BadSlots == [EmptySlots EXCEPT !.action = Some("lease")]

\* Slot records the language model extracts in the dialogue runs.
SlotInputs ==
    { s \in Slots :
        /\ s.action \in Opt({"buy"})
        /\ s.category = (IF Present(s.action) THEN Some("residential") ELSE Unset)
        /\ s.type = (IF Present(s.action) THEN Some("flat") ELSE Unset)
        /\ s.budget_max = Unset }

NoArgs == [isObject |-> TRUE, intent |-> "", slots |-> EmptySlots, session_id |-> 0]

NoResult == [success |-> FALSE, error |-> "", slots |-> EmptySlots, count |-> 0]

Success(slots, count) ==
    [success |-> TRUE, error |-> "", slots |-> slots, count |-> count]

Failure(error) ==
    [success |-> FALSE, error |-> error, slots |-> EmptySlots, count |-> 0]

\* slotSchema.parse(slots) / intentSchema.parse(intent) succeed
ValidSlots(slots) == slots \in Slots

ValidIntent(intent) == intent \in IntentValues

\* functions.ts 122-142.  Destructuring a null args throws inside the try.
extractIntentAndSlots_noValidation(args) ==
    IF args.isObject /\ args.slots \in Slots
        THEN Success(args.slots, 0)
        ELSE Success(EmptySlots, 0)

extractIntentAndSlots(args) ==
    IF args.isObject /\ ValidIntent(args.intent) /\ ValidSlots(args.slots)
        THEN Success(args.slots, 0)
        ELSE Failure("Failed to extract intent and slots")

\* functions.ts 182-201
searchWeb(args) ==
    IF args.isObject THEN Success(EmptySlots, 0) ELSE Failure("Failed to search web")

\* functions.ts 203-206: the part of saveMemory before the store is touched
saveMemoryAccepts_noValidation(args) == args.isObject

saveMemoryAccepts(args) == args.isObject /\ ValidSlots(args.slots)

\* functions.ts 144-147: the part of fetchProperties before the store is touched
fetchPropertiesAccepts(args) == args.isObject /\ ValidSlots(args.slots)

KnownFunctions ==
    {"extract_intent_and_slots", "fetch_properties", "search_web", "save_memory"}

\* Names the model may request that the dispatcher does not know.
UnknownNames == {"book_visit", "fetchProperties"}

\* functions.ts 251-255
UnknownFunctionResult_noName(functionName) == Failure("Unknown function")

UnknownFunctionResult(functionName) == Failure("Unknown function: " \o functionName)

----------------------------------------------------------------------------
\* Replies (routes.ts 127-215): the text of finalResponse, by template.

Reply(kind, field) == [kind |-> kind, field |-> field]

NoReply == Reply("", "")

\* routes.ts 180
AskReply(nextSlot) == Reply("ask", nextSlot)

\* routes.ts 203
ClarifyReply == Reply("clarify", "")

\* routes.ts 186-197
FoundReply == Reply("found", "")

\* routes.ts 199
NoMatchReply == Reply("nomatch", "")

\* routes.ts 207
SearchingReply == Reply("searching", "")

\* routes.ts 209
WebReply(functionResult) ==
    IF functionResult.success THEN Reply("web", "") ELSE Reply("webFallback", "")

\* routes.ts 214
DirectReply(hasContent) ==
    IF hasContent THEN Reply("content", "") ELSE Reply("greeting", "")

\* routes.ts 174-181: the question asked for a non-empty missing list
PolicyQuestion(missingSlots) == AskReply(missingSlots[1])

\* Number of characters of a reply: none when finalResponse is still "", one
\* full slice for text the model supplied, the longest length for a template.
ReplyLength(reply) ==
    IF reply = NoReply THEN 0
    ELSE IF reply.kind \in {"content", "web"} THEN ChunkSize
    ELSE MaxReplyLen

\* The characters of finalResponse: character p of a reply is written as the
\* reply's template, the field it names and p.
Text(reply) == [p \in 1..ReplyLength(reply) |-> <<reply.kind, reply.field, p>>]

Min(a, b) == IF a < b THEN a ELSE b

\* routes.ts 219: finalResponse.slice(i, i + 10), with i counted from 0
slice_overlap(text, i) == SubSeq(text, i + 1, Min(i + ChunkSize + 1, Len(text)))

slice(text, i) == SubSeq(text, i + 1, Min(i + ChunkSize, Len(text)))

\* The events written to the response stream (routes.ts 220, 233, 238).
ContentEvent(chunk) == [content |-> chunk, done |-> FALSE, error |-> FALSE]

DoneEvent == [content |-> <<>>, done |-> TRUE, error |-> FALSE]

ErrorEvent == [content |-> <<>>, done |-> FALSE, error |-> TRUE]

----------------------------------------------------------------------------
\* Server state.

NoSession == [exists |-> FALSE, slots |-> EmptySlots]

\* A request that has not arrived yet.  history is chatMessages, the messages
\* handed to the language model (routes.ts 116-124).  saveResult is what the save_memory
\* call of routes.ts 168 returned, propertyResult what routes.ts 183 got; i is
\* the index of the streaming loop, out the events written to the response,
\* dropped whether the caller's connection has gone.
IdleTurn ==
    [pc |-> "idle", status |-> "", conv |-> 0, history |-> <<>>,
     fn |-> "", args |-> NoArgs, result |-> NoResult, ret |-> "",
     session |-> NoSession, mergedSlots |-> EmptySlots, smExists |-> FALSE,
     saveResult |-> NoResult, propertyResult |-> NoResult,
     finalResponse |-> NoReply, nModel |-> 0, nSearch |-> 0,
     i |-> 0, out |-> <<>>, dropped |-> FALSE]

\* A deleted entry of the messages map.
NoMessage == [id |-> 0, conversationId |-> 0, role |-> "", kind |-> "", content |-> <<>>]

\* storage.ts 95-104
createMessage_sameId(conversationId, role, kind, content) ==
    LET id == IF messages = <<>> THEN 1 ELSE Len(messages) IN
    [k \in 1..id |->
        IF k = id THEN [id |-> id, conversationId |-> conversationId,
                        role |-> role, kind |-> kind, content |-> content]
                  ELSE messages[k]]

createMessage(conversationId, role, kind, content) ==
    Append(messages, [id |-> Len(messages) + 1, conversationId |-> conversationId,
                      role |-> role, kind |-> kind, content |-> content])

\* storage.ts 64-66: getConversation(id) returns a row
HasConversation(id) == id \in 1..Len(conversations) /\ conversations[id]

\* storage.ts 89-93: the rows of a conversation; createdAt grows with the id.
getMessages(conversationId) ==
    SelectSeq(messages, LAMBDA m : m # NoMessage /\ m.conversationId = conversationId)

InitServer ==
    /\ conversations = <<>>
    /\ messages = <<>>
    /\ sessions = [s \in SessionIds |-> NoSession]
    /\ turn = [t \in Turns |-> IdleTurn]

\* The helpers' harness is not in use.
InitFunctionsIdle ==
    /\ existingSlots = EmptySlots
    /\ newSlots = EmptySlots
    /\ mergeResult = EmptySlots
    /\ missingResult = <<>>
    /\ fpc = "off"

\* chat.tsx 13-16: the page as first rendered.  conversations is the number of
\* conversations the sidebar lists, creating the number of createConversation
\* requests pending (39), timers the conversations a delayed send is scheduled
\* for (43-45), streams the sendMessage calls made so far (64), toast the
\* description of the toast shown last.
NewPage ==
    [selectedConversationId |-> 0, isStreaming |-> FALSE, streamingMessage |-> <<>>,
     conversations |-> 0, creating |-> 0, timers |-> <<>>, streams |-> <<>>,
     toast |-> ""]

\* Neither the helpers' harness nor the chat page is in use.
InitHarnessIdle ==
    /\ page = NewPage
    /\ InitFunctionsIdle

Init == InitServer /\ InitHarnessIdle

\* routes.ts 21-33 and storage.ts 68-77: ids are handed out in order.
CreateConversation ==
    /\ Len(conversations) < MaxConversations
    /\ conversations' = Append(conversations, TRUE)
    /\ UNCHANGED <<messages, sessions, turn, slotVars, page>>

\* routes.ts 72: the content field of a request body, by its JavaScript type and
\* truthiness: absent, a number (0 or not), a string (empty or not), an object.
ContentValues ==
    { [type |-> "undefined", truthy |-> FALSE],
      [type |-> "number", truthy |-> FALSE], [type |-> "number", truthy |-> TRUE],
      [type |-> "string", truthy |-> FALSE], [type |-> "string", truthy |-> TRUE],
      [type |-> "object", truthy |-> TRUE] }

\* routes.ts 74: the request passes  !content || typeof content !== 'string'
ContentAccepted_anyTruthy(content) == content.truthy

ContentAccepted(content) == ~(~content.truthy \/ content.type # "string")

\* routes.ts 69-82: the request arrives; content and conversation are checked.
PostMessage(t, c, contentOk) ==
    /\ turn[t].pc = "idle"
    /\ turn' = [turn EXCEPT ![t] =
          IF ~contentOk
              THEN [IdleTurn EXCEPT !.pc = "ended", !.status = "400", !.conv = c]
          ELSE IF ~HasConversation(c)
              THEN [IdleTurn EXCEPT !.pc = "ended", !.status = "404", !.conv = c]
          ELSE [IdleTurn EXCEPT !.pc = "saveUser", !.conv = c]]
    /\ UNCHANGED <<conversations, messages, sessions, slotVars, page>>

\* routes.ts 116-121: messages.filter(msg => msg.role !== "function") and the
\* map to {role, content}
chatMessages_keepsFunction(rows) ==
    [k \in 1..Len(rows) |-> [role |-> rows[k].role, content |-> rows[k].content]]

chatMessages(rows) ==
    LET kept == SelectSeq(rows, LAMBDA msg : msg.role # "function") IN
    [k \in 1..Len(kept) |-> [role |-> kept[k].role, content |-> kept[k].content]]

\* routes.ts 86-96 and 116-121: the user message is stored and the messages of
\* the conversation are read back.  Neither call of MemStorage waits on
\* anything (storage.ts 89-104), so no other handler runs between the two; the
\* array read here is the one filtered for the model later.
SaveUserMessage(t) ==
    /\ turn[t].pc = "saveUser"
    /\ messages' = createMessage(turn[t].conv, "user", "user", <<>>)
    /\ \E conversationId \in {turn[t].conv} :
          turn' = [turn EXCEPT ![t].pc = "history",
                               ![t].history = chatMessages(getMessages(conversationId)')]
    /\ UNCHANGED <<conversations, sessions, slotVars, page>>

\* routes.ts 98-112: title generated and dropped, stream opened.
GetHistory(t) ==
    /\ turn[t].pc = "history"
    /\ turn' = [turn EXCEPT ![t].pc = "model", ![t].status = "streaming"]
    /\ UNCHANGED <<conversations, messages, sessions, slotVars, page>>

\* The handler has written its last event: its locals are gone, the outcome
\* and what was written to the response stay.
Ended(rec, status) ==
    [IdleTurn EXCEPT !.pc = "ended", !.status = status, !.conv = rec.conv,
                     !.finalResponse = rec.finalResponse, !.out = rec.out]

\* routes.ts 236-240: the inner catch writes one error event and ends the stream.
Caught_errorThenDone(rec) ==
    Ended([rec EXCEPT !.out = @ \o <<ErrorEvent, DoneEvent>>], "error")

Caught_noEnd(rec) == [rec EXCEPT !.out = Append(@, ErrorEvent), !.pc = "open"]

Caught(rec) == Ended([rec EXCEPT !.out = Append(@, ErrorEvent)], "error")

\* routes.ts 124: ragChatCompletion(chatMessages, sessionId) is called once;
\* chatMessages is not read again, and leaves the handler state with the call.
Called(rec) == [rec EXCEPT !.nModel = @ + 1, !.history = <<>>]

\* routes.ts 124 fails, or 132 throws on arguments that are not JSON.
ModelFails_retry(t) ==
    /\ turn[t].pc = "model"
    /\ turn' = [turn EXCEPT ![t] = [@ EXCEPT !.nModel = @ + 1]]
    /\ UNCHANGED <<conversations, messages, sessions, slotVars, page>>

ModelFails(t) ==
    /\ turn[t].pc = "model"
    /\ turn' = [turn EXCEPT ![t] = Caught(Called(@))]
    /\ UNCHANGED <<conversations, messages, sessions, slotVars, page>>

\* routes.ts 124-127, 212-215: the model answers with text (or with none).
ModelRepliesText(t, hasContent) ==
    /\ turn[t].pc = "model"
    /\ turn' = [turn EXCEPT ![t] =
          [Called(@) EXCEPT !.pc = "stream",
                            !.finalResponse = DirectReply(hasContent)]]
    /\ UNCHANGED <<conversations, messages, sessions, slotVars, page>>

\* functions.ts 241-257, for the handlers that do not wait on a store and for
\* the argument checks of the two that do: the result, or none yet.
executeFunction(functionName, args) ==
    CASE functionName = "extract_intent_and_slots" ->
            [done |-> TRUE, result |-> extractIntentAndSlots(args)]
      [] functionName = "search_web" ->
            [done |-> TRUE, result |-> searchWeb(args)]
      [] functionName = "save_memory" ->
            IF saveMemoryAccepts(args)
                THEN [done |-> FALSE, result |-> NoResult]
                ELSE [done |-> TRUE, result |-> Failure("Failed to save memory")]
      [] functionName = "fetch_properties" ->
            IF fetchPropertiesAccepts(args)
                THEN [done |-> FALSE, result |-> NoResult]
                ELSE [done |-> TRUE, result |-> Failure("Failed to fetch properties")]
      [] OTHER ->
            [done |-> TRUE, result |-> UnknownFunctionResult(functionName)]

\* Where a call of executeFunction continues when it has to wait on a store.
StorePc(functionName) ==
    IF functionName = "save_memory" THEN "smGet" ELSE "search"

\* A record with every required field present and a positive budget.
CompleteSlots ==
    [action |-> Some("buy"), category |-> Some("residential"), type |-> Some("flat"),
     location |-> Some("Pune"), budget_min |-> Some(MaxBudget), budget_max |-> Unset]

Args(intent, slots, session_id) ==
    [isObject |-> TRUE, intent |-> intent, slots |-> slots, session_id |-> session_id]

\* Arguments the model passes with each function name.
ArgsFor(functionName) ==
    CASE functionName = "extract_intent_and_slots" ->
            { Args("property_query", s, 0) : s \in SlotInputs \cup {BadSlots} }
            \cup { Args("smalltalk", EmptySlots, 0), [NoArgs EXCEPT !.isObject = FALSE] }
      [] functionName = "save_memory" ->
            { Args("", s, sid) :
                s \in {EmptySlots, CompleteSlots, BadSlots}, sid \in SessionIds }
            \cup { [NoArgs EXCEPT !.isObject = FALSE] }
      [] functionName = "fetch_properties" ->
            { Args("", s, 0) : s \in {EmptySlots, CompleteSlots, BadSlots} }
            \cup { [NoArgs EXCEPT !.isObject = FALSE] }
      [] OTHER -> { NoArgs, [NoArgs EXCEPT !.isObject = FALSE] }

\* routes.ts 130-135: the model requests a function and it is dispatched.
ModelCallsFunction(t, functionName, args) ==
    /\ turn[t].pc = "model"
    /\ LET call == executeFunction(functionName, args) IN
       turn' = [turn EXCEPT ![t] =
          [Called(@) EXCEPT !.fn = functionName, !.args = args,
                            !.ret = "dispatch",
                            !.result = call.result,
                            !.pc = IF call.done THEN "saveCall" ELSE StorePc(functionName)]]
    /\ UNCHANGED <<conversations, messages, sessions, slotVars, page>>

\* The session id and slots of the save_memory call a turn is making: the
\* model's own arguments (routes.ts 135) or the merged slots (routes.ts 168-172).
SaveArgs(rec) ==
    IF rec.ret = "dispatch"
        THEN rec.args
        ELSE [isObject |-> TRUE, intent |-> "", slots |-> rec.mergedSlots,
              session_id |-> SessionOf(rec.conv)]

\* Session store put: updateUserSession / createUserSession keep the slots given.
putUserSession(session_id, slots) ==
    [sessions EXCEPT ![session_id] = [exists |-> TRUE, slots |-> slots]]

\* routes.ts 174-184: after the save, ask for the first missing slot or search.
AfterSave(rec) ==
    LET missingSlots == getMissingSlots(rec.mergedSlots) IN
    IF Len(missingSlots) > 0
        THEN [rec EXCEPT !.pc = "stream", !.finalResponse = PolicyQuestion(missingSlots)]
        ELSE [rec EXCEPT !.pc = "search"]

\* saveMemory returns r to its caller: routes.ts 135 (the model's call) or
\* routes.ts 168 (the merge, which drops the result and goes on).
SaveReturns(rec, r) ==
    IF rec.ret = "dispatch"
        THEN [rec EXCEPT !.result = r, !.pc = "saveCall"]
        ELSE AfterSave([rec EXCEPT !.saveResult = r])

\* functions.ts 208-209: saveMemory looks the session up; when the store
\* throws, the catch of functions.ts 231-237 returns the failure envelope.
SaveMemoryGet(t, ok) ==
    /\ turn[t].pc = "smGet"
    /\ turn' = [turn EXCEPT ![t] =
          IF ok
              THEN [@ EXCEPT !.smExists = sessions[SaveArgs(turn[t]).session_id].exists,
                             !.pc = "smPut"]
              ELSE SaveReturns(@, Failure("Failed to save memory"))]
    /\ UNCHANGED <<conversations, messages, sessions, slotVars, page>>

\* functions.ts 211-230: saveMemory updates or creates the session (or the
\* store throws), then returns.
SaveMemoryPut(t, ok) ==
    /\ turn[t].pc = "smPut"
    /\ LET a == SaveArgs(turn[t]) IN
       /\ sessions' = IF ok THEN putUserSession(a.session_id, a.slots) ELSE sessions
       /\ turn' = [turn EXCEPT ![t] =
             SaveReturns(@, IF ok THEN Success(a.slots, 0)
                                  ELSE Failure("Failed to save memory"))]
    /\ UNCHANGED <<conversations, messages, slotVars, page>>

\* Outcomes of storage.searchProperties: it throws, or returns 0..MaxMatches rows.
SearchOutcomes ==
    {[ok |-> FALSE, count |-> 0]} \cup {[ok |-> TRUE, count |-> n] : n \in 0..MaxMatches}

\* functions.ts 149-179
fetchPropertiesResult(slots, outcome) ==
    IF outcome.ok THEN Success(slots, outcome.count)
                  ELSE Failure("Failed to fetch properties")

\* routes.ts 185-200
SearchReply_foundOnEmpty(propertyResult) ==
    IF propertyResult.success /\ propertyResult.count >= 0
        THEN FoundReply ELSE NoMatchReply

SearchReply(propertyResult) ==
    IF propertyResult.success /\ propertyResult.count > 0
        THEN FoundReply ELSE NoMatchReply

\* The slots a turn's property search is made with.
SearchedSlots(rec) ==
    IF rec.ret = "dispatch" THEN rec.args.slots ELSE rec.mergedSlots

\* functions.ts 149: the property search, for routes.ts 135 or routes.ts 183.
FetchSearch(t, outcome) ==
    /\ turn[t].pc = "search"
    /\ LET r == fetchPropertiesResult(SearchedSlots(turn[t]), outcome) IN
       turn' = [turn EXCEPT ![t] =
          IF @.ret = "dispatch"
              THEN [@ EXCEPT !.nSearch = @ + 1, !.result = r, !.pc = "saveCall"]
              ELSE [@ EXCEPT !.nSearch = @ + 1, !.pc = "stream",
                             !.propertyResult = r,
                             !.finalResponse = SearchReply(r)]]
    /\ UNCHANGED <<conversations, messages, sessions, slotVars, page>>

\* routes.ts 137-144
SaveCallMessage(t) ==
    /\ turn[t].pc = "saveCall"
    /\ messages' = createMessage(turn[t].conv, "assistant", "call", <<>>)
    /\ turn' = [turn EXCEPT ![t].pc = "saveResult"]
    /\ UNCHANGED <<conversations, sessions, slotVars, page>>

\* routes.ts 155-210: what the route does with the function's result.
AfterDispatch(rec) ==
    CASE rec.fn = "extract_intent_and_slots" ->
            IF rec.result.success
                THEN [rec EXCEPT !.pc = "readSession"]
                ELSE [rec EXCEPT !.pc = "stream", !.finalResponse = ClarifyReply]
      [] rec.fn = "fetch_properties" ->
            [rec EXCEPT !.pc = "stream", !.finalResponse = SearchingReply]
      [] rec.fn = "search_web" ->
            [rec EXCEPT !.pc = "stream", !.finalResponse = WebReply(rec.result)]
      [] OTHER -> [rec EXCEPT !.pc = "stream"]

\* routes.ts 146-152, then the branch on the function name
SaveResultMessage(t) ==
    /\ turn[t].pc = "saveResult"
    /\ messages' = createMessage(turn[t].conv, "function", "result", <<>>)
    /\ turn' = [turn EXCEPT ![t] = AfterDispatch(@)]
    /\ UNCHANGED <<conversations, sessions, slotVars, page>>

\* routes.ts 159-172: read the session, merge, and call save_memory.
ReadSession(t) ==
    /\ turn[t].pc = "readSession"
    /\ LET session == sessions[SessionOf(turn[t].conv)]
           merged == IF session.exists
                        THEN mergeSlots(session.slots, turn[t].result.slots)
                        ELSE turn[t].result.slots
           rec == [turn[t] EXCEPT !.session = session, !.mergedSlots = merged,
                                  !.ret = "policy"]
           call == executeFunction("save_memory", SaveArgs(rec))
       IN turn' = [turn EXCEPT ![t] =
             IF call.done THEN SaveReturns(rec, call.result)
                          ELSE [rec EXCEPT !.pc = "smGet"]]
    /\ UNCHANGED <<conversations, messages, sessions, slotVars, page>>

\* routes.ts 160: the session store throws; the inner catch takes over.
ReadSessionFails(t) ==
    /\ turn[t].pc = "readSession"
    /\ turn' = [turn EXCEPT ![t] = Caught(@)]
    /\ UNCHANGED <<conversations, messages, sessions, slotVars, page>>

\* One pass of the loop of routes.ts 218-222: write the slice at i, wait, add
\* ten to i; the loop is left when i has reached the length.
WriteChunk(rec) ==
    LET text == Text(rec.finalResponse) IN
    IF rec.i < Len(text)
        THEN [rec EXCEPT !.out = Append(@, ContentEvent(slice(text, rec.i))),
                         !.i = @ + ChunkSize,
                         !.pc = IF rec.i + ChunkSize < Len(text)
                                   THEN "stream" ELSE "saveFinal"]
        ELSE [rec EXCEPT !.pc = "saveFinal"]

\* routes.ts 217-222
StreamReply_persistsLate(t) ==
    /\ turn[t].pc = "stream"
    /\ turn' = [turn EXCEPT ![t] = WriteChunk(@)]
    /\ sessions' = IF turn[t].ret = "policy"
                      THEN putUserSession(SessionOf(turn[t].conv), turn[t].mergedSlots)
                      ELSE sessions
    /\ UNCHANGED <<conversations, messages, slotVars, page>>

StreamReply(t) ==
    /\ turn[t].pc = "stream"
    /\ turn' = [turn EXCEPT ![t] = WriteChunk(@)]
    /\ UNCHANGED <<conversations, messages, sessions, slotVars, page>>

\* The caller's connection goes while the reply is being streamed; the
\* handler registers no close listener and carries on (routes.ts 217-234).
ConnectionDrops(t) ==
    /\ turn[t].pc = "stream" /\ ~turn[t].dropped
    /\ turn' = [turn EXCEPT ![t].dropped = TRUE]
    /\ UNCHANGED <<conversations, messages, sessions, slotVars, page>>

\* routes.ts 224-234: the final message is stored, then the done marker written.
SaveFinalMessage(t) ==
    /\ turn[t].pc = "saveFinal"
    /\ messages' = createMessage(turn[t].conv, "assistant", "final",
                                 Text(turn[t].finalResponse))
    /\ turn' = [turn EXCEPT ![t] = Ended([@ EXCEPT !.out = Append(@, DoneEvent)], "done")]
    /\ UNCHANGED <<conversations, sessions, slotVars, page>>

Next ==
    \/ CreateConversation
    \/ \E t \in Turns, c \in ConvIds, content \in ContentValues :
          PostMessage(t, c, ContentAccepted(content))
    \/ \E t \in Turns : SaveUserMessage(t)
    \/ \E t \in Turns : GetHistory(t)
    \/ \E t \in Turns : ModelFails(t)
    \/ \E t \in Turns, hasContent \in BOOLEAN : ModelRepliesText(t, hasContent)
    \/ \E t \in Turns, f \in KnownFunctions \cup UnknownNames :
          \E a \in ArgsFor(f) : ModelCallsFunction(t, f, a)
    \/ \E t \in Turns, ok \in BOOLEAN : SaveMemoryGet(t, ok)
    \/ \E t \in Turns, ok \in BOOLEAN : SaveMemoryPut(t, ok)
    \/ \E t \in Turns, o \in SearchOutcomes : FetchSearch(t, o)
    \/ \E t \in Turns : SaveCallMessage(t)
    \/ \E t \in Turns : SaveResultMessage(t)
    \/ \E t \in Turns : ReadSession(t)
    \/ \E t \in Turns : ReadSessionFails(t)
    \/ \E t \in Turns : StreamReply(t)
    \/ \E t \in Turns : SaveFinalMessage(t)

vars == <<slotVars, serverVars, page>>

Spec == Init /\ [][Next]_vars

----------------------------------------------------------------------------
\* One request, end to end, on a store left by earlier requests; the caller's
\* connection may go while the reply is streamed.

\* The request followed.
TheTurn == "t1"

\* Conversation ids a request may name: a stored one, or one the store has not.
RequestedIds == ConvIds \cup {MaxConversations + 1}

\* Slots a session holds from earlier turns.
SessionSlots == {EmptySlots, CompleteSlots, [CompleteSlots EXCEPT !.budget_min = Unset]}

\* The conversations exist; each one's session is absent or holds slots persisted
\* by earlier turns; the messages have been cleared (routes.ts 58-66).
InitTurn ==
    /\ conversations = [c \in ConvIds |-> TRUE]
    /\ messages = <<>>
    /\ sessions \in [SessionIds ->
                       {NoSession} \cup {[exists |-> TRUE, slots |-> s] : s \in SessionSlots}]
    /\ turn = [t \in Turns |-> IdleTurn]
    /\ InitHarnessIdle

\* Every step of the request's handler that the fair scheduling of the event
\* loop takes once it is due: an awaited call returns or fails.
Handler(t) ==
    \/ SaveUserMessage(t)
    \/ GetHistory(t)
    \/ ModelFails(t)
    \/ \E hasContent \in BOOLEAN : ModelRepliesText(t, hasContent)
    \/ \E f \in KnownFunctions \cup UnknownNames :
          \E a \in ArgsFor(f) : ModelCallsFunction(t, f, a)
    \/ \E ok \in BOOLEAN : SaveMemoryGet(t, ok)
    \/ \E ok \in BOOLEAN : SaveMemoryPut(t, ok)
    \/ \E o \in SearchOutcomes : FetchSearch(t, o)
    \/ SaveCallMessage(t)
    \/ SaveResultMessage(t)
    \/ ReadSession(t)
    \/ ReadSessionFails(t)
    \/ StreamReply(t)
    \/ SaveFinalMessage(t)

NextTurn ==
    \/ \E c \in RequestedIds, content \in ContentValues :
          PostMessage(TheTurn, c, ContentAccepted(content))
    \/ Handler(TheTurn)
    \/ ConnectionDrops(TheTurn)

SpecTurn == InitTurn /\ [][NextTurn]_vars

\* The event loop runs every handler step that is due.
SpecTurnLive == SpecTurn /\ WF_vars(Handler(TheTurn))

----------------------------------------------------------------------------
\* MemStorage alone (storage.ts): deletions and further messages on a store
\* that holds some conversations and messages.

\* Conversations the store starts with at most.
MaxStoredConversations == 2

\* Messages the store holds at most (deleted ones counted).
MaxStoredMessages == 3

StoredConvIds == 1..MaxStoredConversations

\* A store filled by createConversation and createMessage calls only.
InitStorage ==
    /\ \E n \in 0..MaxStoredConversations : conversations = [c \in 1..n |-> TRUE]
    /\ \E n \in 0..MaxStoredMessages :
          /\ messages \in [1..n -> [id : 1..n, conversationId : StoredConvIds,
                                    role : {"user"}, kind : {"user"}, content : {<<>>}]]
          /\ \A k \in 1..n : messages[k].id = k
    /\ sessions = [s \in SessionIds |-> NoSession]
    /\ turn = [t \in Turns |-> IdleTurn]
    /\ InitHarnessIdle

\* storage.ts 82-84 and 107-109: the ids of the rows of one conversation
messagesToDelete_byMessageId(id) ==
    { k \in 1..Len(messages) : messages[k] # NoMessage /\ messages[k].id = id }

messagesToDelete(id) ==
    { k \in 1..Len(messages) : messages[k] # NoMessage /\ messages[k].conversationId = id }

\* storage.ts 86 and 111: messagesToDelete.forEach(id => this.messages.delete(id))
deleteEach(ids) ==
    [k \in 1..Len(messages) |-> IF k \in ids THEN NoMessage ELSE messages[k]]

\* storage.ts 79-87
DeleteConversation(id) ==
    /\ conversations' = [c \in 1..Len(conversations) |->
                            IF c = id THEN FALSE ELSE conversations[c]]
    /\ messages' = deleteEach(messagesToDelete(id))
    /\ UNCHANGED <<sessions, turn, slotVars, page>>

\* storage.ts 106-112
DeleteMessages_forgetsSession(conversationId) ==
    /\ messages' = deleteEach(messagesToDelete(conversationId))
    /\ sessions' = [s \in SessionIds |->
                       IF s = SessionOf(conversationId) THEN NoSession ELSE sessions[s]]
    /\ UNCHANGED <<conversations, turn, slotVars, page>>

DeleteMessages(conversationId) ==
    /\ messages' = deleteEach(messagesToDelete(conversationId))
    /\ UNCHANGED <<conversations, sessions, turn, slotVars, page>>

\* storage.ts 95-104, called for any conversation id (the store does not look
\* the conversation up).
StoreMessage(conversationId) ==
    /\ Len(messages) < MaxStoredMessages
    /\ messages' = createMessage(conversationId, "user", "user", <<>>)
    /\ UNCHANGED <<conversations, sessions, turn, slotVars, page>>

NextStorage ==
    \/ \E id \in StoredConvIds : DeleteConversation(id)
    \/ \E id \in StoredConvIds : DeleteMessages(id)
    \/ \E id \in StoredConvIds : StoreMessage(id)

SpecStorage == InitStorage /\ [][NextStorage]_vars

----------------------------------------------------------------------------
\* One request on a store that holds the messages of earlier turns; the
\* messages of a conversation may be cleared at any time.

\* A row createMessage stored earlier (storage.ts 95-104).
Row(id, conversationId, role, kind, content) ==
    [id |-> id, conversationId |-> conversationId,
     role |-> role, kind |-> kind, content |-> content]

\* What earlier turns left in the store: nothing; a turn answered with text;
\* a turn in which the model called a function (routes.ts 87-93, 138-152,
\* 225-231), with a message of another conversation stored in between.
EarlierMessages ==
    { <<>>,
      << Row(1, 1, "user", "user", <<>>),
         Row(2, 1, "assistant", "final", Text(DirectReply(FALSE))) >>,
      << Row(1, 1, "user", "user", <<>>),
         Row(2, MaxStoredConversations, "user", "user", <<>>),
         Row(3, 1, "assistant", "call", <<>>),
         Row(4, 1, "function", "result", <<>>),
         Row(5, 1, "assistant", "final", Text(ClarifyReply)) >> }

InitHistory ==
    /\ conversations = [c \in StoredConvIds |-> TRUE]
    /\ messages \in EarlierMessages
    /\ sessions \in [SessionIds ->
                       {NoSession} \cup {[exists |-> TRUE, slots |-> s] : s \in SessionSlots}]
    /\ turn = [t \in Turns |-> IdleTurn]
    /\ InitHarnessIdle

\* routes.ts 58-66: DELETE /api/conversations/:id/messages
ClearMessages(conversationId) == DeleteMessages(conversationId)

NextHistory ==
    \/ \E c \in ConvIds, content \in ContentValues :
          PostMessage(TheTurn, c, ContentAccepted(content))
    \/ Handler(TheTurn)
    \/ \E c \in StoredConvIds : ClearMessages(c)

SpecHistory == InitHistory /\ [][NextHistory]_vars

----------------------------------------------------------------------------
\* Harness for the two helpers: the arguments are drawn by InitSlots, the
\* actions apply mergeSlots and then getMissingSlots to its result.

\* Records a session may hold as the existing side of a merge.
StoredSlots ==
    [action : Opt({"buy"}), category : Opt({"residential"}),
     type : Opt({"flat"}), location : Opt(LocationValues),
     budget_min : Opt(BudgetValues), budget_max : Opt(BudgetValues)]

InitSlots ==
    /\ existingSlots \in StoredSlots
    /\ newSlots \in Slots
    /\ mergeResult = EmptySlots
    /\ missingResult = <<>>
    /\ fpc = "input"
    /\ page = NewPage
    /\ InitServer

ApplyMerge ==
    /\ fpc = "input"
    /\ mergeResult' = mergeSlots(existingSlots, newSlots)
    /\ fpc' = "merged"
    /\ UNCHANGED <<existingSlots, newSlots, missingResult, serverVars, page>>

ApplyMissing ==
    /\ fpc = "merged"
    /\ missingResult' = getMissingSlots(mergeResult)
    /\ fpc' = "checked"
    /\ UNCHANGED <<existingSlots, newSlots, mergeResult, serverVars, page>>

NextSlots == ApplyMerge \/ ApplyMissing

SpecSlots == InitSlots /\ [][NextSlots]_vars

----------------------------------------------------------------------------
\* C1: for each of the six fields, mergeSlots(A, B) has B's value when B's
\* value is present (also a budget of 0 or an empty location), else A's value.
BWins(f) ==
    mergeResult[f] = IF Present(newSlots[f]) THEN newSlots[f] ELSE existingSlots[f]

C1_MergeIncomingWinsWhenPresent ==
    fpc # "input" => \A f \in SlotFields : BWins(f)

\* C2: getMissingSlots returns the empty sequence iff action, category, type
\* and location are all present and budget_min or budget_max is present.
Complete(s) ==
    /\ Present(s.action) /\ Present(s.category) /\ Present(s.type)
    /\ Present(s.location)
    /\ (Present(s.budget_min) \/ Present(s.budget_max))

C2_MissingEmptyIffComplete ==
    fpc = "checked" => (missingResult = <<>> <=> Complete(mergeResult))

\* C3: the sequence returned by getMissingSlots is a subsequence of the fixed
\* priority order [action, category, type, location, budget]: no duplicates,
\* never another relative order.
PriorityOrder ==
    <<LabelAction, LabelCategory, LabelType, LabelLocation, LabelBudget>>

IsSubsequence(s, t) ==
    \E f \in [1..Len(s) -> 1..Len(t)] :
        /\ \A i \in 1..Len(s) : s[i] = t[f[i]]
        /\ \A i, j \in 1..Len(s) : i < j => f[i] < f[j]

C3_MissingInPriorityOrder ==
    fpc = "checked" => IsSubsequence(missingResult, PriorityOrder)

C3_Witness ==
    /\ fpc = "checked"
    /\ missingResult = <<LabelCategory, LabelBudget>>

----------------------------------------------------------------------------
\* Dialogue turns.

\* The turn has been through an extraction that validated (routes.ts 156-157).
ValidExtraction(r) ==
    /\ r.fn = "extract_intent_and_slots" /\ r.pc # "ended"
    /\ r.args.isObject /\ r.args.intent \in IntentValues /\ r.args.slots \in Slots

\* The turn's extraction arguments do not validate.
InvalidExtraction(r) ==
    /\ r.fn = "extract_intent_and_slots" /\ r.pc # "ended"
    /\ ~(r.args.isObject /\ r.args.intent \in IntentValues /\ r.args.slots \in Slots)

\* The turn has merged, persisted and chosen its reply.
Replied(r) == r.ret = "policy" /\ r.pc \in {"stream", "saveFinal"}

\* The required fields of s that are not present, in priority order.
MissingRequired(s) ==
    (IF Present(s.action) THEN <<>> ELSE <<LabelAction>>)
    \o (IF Present(s.category) THEN <<>> ELSE <<LabelCategory>>)
    \o (IF Present(s.type) THEN <<>> ELSE <<LabelType>>)
    \o (IF Present(s.location) THEN <<>> ELSE <<LabelLocation>>)
    \o (IF Present(s.budget_min) \/ Present(s.budget_max) THEN <<>> ELSE <<LabelBudget>>)

\* C4: in a turn with a valid extraction whose merged slots have a missing
\* required field, the reply is the question naming the first missing field
\* of the priority order, and property search is not invoked.
C4_AsksFirstMissingAndNoSearch ==
    \A t \in Turns :
        LET r == turn[t] IN
        (ValidExtraction(r) /\ Replied(r) /\ ~Complete(r.mergedSlots))
            => /\ r.finalResponse = AskReply(MissingRequired(r.mergedSlots)[1])
               /\ r.nSearch = 0

\* C5: the policy never asks about a field that the session's merged slots
\* already satisfy, and a turn's question names one field only.
C5_NeverAsksSatisfiedField ==
    \A t \in Turns :
        LET r == turn[t] IN
        (Replied(r) /\ r.finalResponse.kind = "ask")
            => /\ \E i \in 1..Len(PriorityOrder) : r.finalResponse.field = PriorityOrder[i]
               /\ \E i \in 1..Len(MissingRequired(r.mergedSlots)) :
                      r.finalResponse.field = MissingRequired(r.mergedSlots)[i]

\* Only location is supplied.
OnlyLocation(s) ==
    /\ Present(s.location)
    /\ \A f \in SlotFields \ {"location"} : ~Present(s[f])

\* The turn's save of the merged slots has returned with success.
Persisted(r) ==
    /\ r.ret = "policy" /\ r.pc \in {"search", "stream", "saveFinal"}
    /\ r.saveResult.success

\* C6: two sequential valid extractions on one session, the second supplying
\* only location: the persisted slots keep the first extraction's action,
\* category, type, budget_min and budget_max, and location is the second's.
\* (first: the session did not exist when it read; second: it read what the
\* first persisted.)
C6_SecondExtractionUpdatesOnlyLocation ==
    \A t1, t2 \in Turns :
        LET first == turn[t1]
            second == turn[t2] IN
        ( /\ t1 # t2 /\ first.conv = second.conv
          /\ ValidExtraction(first) /\ Persisted(first)
          /\ ValidExtraction(second) /\ Persisted(second)
          /\ ~first.session.exists
          /\ second.session = [exists |-> TRUE, slots |-> first.mergedSlots]
          /\ OnlyLocation(second.result.slots) )
        => sessions[SessionOf(first.conv)].slots =
              [first.result.slots EXCEPT !.location = second.result.slots.location]

\* C7: once a field of a session's persisted slots is set, it stays set
\* after every later step, whichever function the model requests.
C7_SessionFieldsNeverDeleted ==
    [][\A s \in SessionIds, f \in SlotFields :
          (sessions[s].exists /\ Present(sessions[s].slots[f]))
              => Present(sessions'[s].slots[f])]_vars

\* The turn has read the session to merge into and has not persisted yet.
InSection(r) ==
    /\ r.fn = "extract_intent_and_slots" /\ r.ret = "policy"
    /\ r.pc \in {"smGet", "smPut"}

\* C8: the read-merge-persist sections of two turns on one session exclude
\* each other, and the persisted slots hold the fields extracted by both.
C8_SectionsExclusiveNoLostUpdate ==
    \A t1, t2 \in Turns :
        (t1 # t2 /\ turn[t1].conv = turn[t2].conv)
        => /\ ~(InSection(turn[t1]) /\ InSection(turn[t2]))
           /\ (ValidExtraction(turn[t1]) /\ Persisted(turn[t1])
                /\ ValidExtraction(turn[t2]) /\ Persisted(turn[t2]))
               => \A f \in SlotFields :
                     (Present(turn[t1].result.slots[f]) \/ Present(turn[t2].result.slots[f]))
                        => Present(sessions[SessionOf(turn[t1].conv)].slots[f])

\* C8, the lost update alone and apart from the falsy values mergeSlots drops:
\* once two turns on one session have both persisted, the action extracted by
\* one of them is in the persisted slots.
C8_NoTruthyFieldLost ==
    \A t1, t2 \in Turns :
        ( /\ t1 # t2 /\ turn[t1].conv = turn[t2].conv
          /\ ValidExtraction(turn[t1]) /\ Persisted(turn[t1])
          /\ ValidExtraction(turn[t2]) /\ Persisted(turn[t2]) )
        => (~FalsyStr(turn[t1].result.slots.action)
               => Present(sessions[SessionOf(turn[t1].conv)].slots.action))

\* C9: dispatching a name outside the four known ones returns
\* {success: false, error: "Unknown function: <name>"}, does not throw (the
\* route goes on to store the call), and changes no stored state.
C9_UnknownFunctionFailsWithoutEffect ==
    [][\A t \in Turns :
          (turn[t].pc = "model" /\ turn'[t].fn # "" /\ turn'[t].fn \notin KnownFunctions)
              => /\ turn'[t].result.success = FALSE
                 /\ turn'[t].result.error = "Unknown function: " \o turn'[t].fn
                 /\ turn'[t].pc = "saveCall" /\ turn'[t].status = "streaming"
                 /\ UNCHANGED storeVars]_vars

C9_Witness ==
    \E t \in Turns :
        /\ turn[t].fn = "book_visit" /\ turn[t].pc = "saveCall"
        /\ turn[t].result.error = "Unknown function: book_visit"

\* C10: when the extraction arguments fail validation, the reply is the
\* clarification request, the model was called once, no property search is
\* made, and no step of the turn changes the session store.
C10_InvalidExtractionClarifies ==
    [][\A t \in Turns :
          LET r == turn[t] IN
          InvalidExtraction(r)
              => /\ r.nModel = 1 /\ r.nSearch = 0
                 /\ r.pc \in {"saveCall", "saveResult", "stream", "saveFinal"}
                 /\ (r.pc \in {"stream", "saveFinal"} => r.finalResponse = ClarifyReply)
                 /\ (turn'[t] # r
                        => /\ sessions' = sessions
                           /\ (turn'[t].pc = "ended"
                                  => /\ turn'[t].status = "done"
                                     /\ turn'[t].finalResponse = ClarifyReply))]_vars

C10_Witness ==
    \E t \in Turns :
        /\ InvalidExtraction(turn[t]) /\ turn[t].pc = "saveFinal"
        /\ turn[t].finalResponse = ClarifyReply
        /\ sessions[SessionOf(turn[t].conv)].exists

----------------------------------------------------------------------------
\* One request on a store left by earlier requests.

\* merge of spec section 4.1: the incoming value when present, else the
\* existing one.
Merge(existing, incoming) ==
    [action     |-> IF Present(incoming.action) THEN incoming.action ELSE existing.action,
     category   |-> IF Present(incoming.category) THEN incoming.category
                                                  ELSE existing.category,
     type       |-> IF Present(incoming.type) THEN incoming.type ELSE existing.type,
     location   |-> IF Present(incoming.location) THEN incoming.location
                                                  ELSE existing.location,
     budget_min |-> IF Present(incoming.budget_min) THEN incoming.budget_min
                                                    ELSE existing.budget_min,
     budget_max |-> IF Present(incoming.budget_max) THEN incoming.budget_max
                                                    ELSE existing.budget_max]

\* The slots stored for the turn's session when the turn read it.
PreviouslyStored(r) == IF r.session.exists THEN r.session.slots ELSE EmptySlots

\* The turn is inside its save_memory call of routes.ts 168.
Saving(r) == r.ret = "policy" /\ r.pc \in {"smGet", "smPut"}

\* C11: in every turn with a valid extraction the merged slots are persisted,
\* complete or not: when the turn's save returns with success, the session's
\* stored slots are merge(previously stored slots, extracted slots).
C11_PersistsMergeOfStoredAndExtracted ==
    [][\A t \in Turns :
          LET r == turn[t] IN
          /\ (ValidExtraction(r) /\ r.pc = "readSession" /\ turn'[t] # r)
                => (turn'[t].pc = "smGet" \/ turn'[t].status = "error")
          /\ (ValidExtraction(r) /\ Saving(r) /\ ~Saving(turn'[t])
                /\ turn'[t].saveResult.success)
                => sessions'[SessionOf(r.conv)] =
                      [exists |-> TRUE,
                       slots |-> Merge(PreviouslyStored(r), r.result.slots)]]_vars

\* The turn is in its streaming section (routes.ts 217-234).
Streaming(r) == r.pc \in {"stream", "saveFinal"}

\* C12: the merge-and-persist step has committed before the first reply chunk
\* is written, so a connection dropped at any point of the streaming leaves
\* the session slots as before the turn or fully merged, never partial: a
\* content chunk is written only after the turn's save has returned, a save
\* changes the session to the whole merged slots in one step, and no step of a
\* turn that is streaming changes the session store.
C12_PersistCommittedBeforeStreaming ==
    [][\A t \in Turns :
          LET r == turn[t]
              sid == SessionOf(r.conv) IN
          /\ (ValidExtraction(r) /\ r.result.success /\ turn'[t].i > r.i)
                => (r.ret = "policy" /\ r.saveResult # NoResult /\ ~Saving(r))
          /\ (Saving(r) /\ turn'[t] # r /\ sessions' # sessions)
                => sessions' = [sessions EXCEPT ![sid] =
                                   [exists |-> TRUE, slots |-> r.mergedSlots]]
          /\ (Streaming(r) /\ turn'[t] # r) => sessions' = sessions]_vars

C12_Witness ==
    \E t \in Turns :
        LET r == turn[t] IN
        /\ ValidExtraction(r) /\ r.pc = "stream" /\ r.i > 0 /\ r.dropped
        /\ r.session.exists /\ r.mergedSlots # r.session.slots
        /\ sessions[SessionOf(r.conv)].slots = r.mergedSlots

RECURSIVE Concat(_)
\* The content chunks of a sequence of events, joined in the order written.
Concat(events) ==
    IF events = <<>> THEN <<>>
    ELSE Concat(SubSeq(events, 1, Len(events) - 1)) \o events[Len(events)].content

\* C13: the chunks of a turn are written in generation order without
\* reordering, loss or duplication: while the reply is streamed the chunks
\* written so far join to the first i characters of the reply, and when the
\* done marker is written the chunks before it join to the final reply text,
\* which is the content of the assistant message saved for the turn.
C13_ChunksJoinToReplyAndSavedMessage ==
    [][\A t \in Turns :
          LET r == turn[t]
              text == Text(r.finalResponse) IN
          /\ Streaming(r)
                => /\ \A k \in 1..Len(r.out) : ~r.out[k].done /\ ~r.out[k].error
                   /\ Concat(r.out) = SubSeq(text, 1, Min(r.i, Len(text)))
          /\ (r.pc = "saveFinal" /\ turn'[t].pc = "ended")
                => /\ turn'[t].out = Append(r.out, DoneEvent)
                   /\ Concat(r.out) = text
                   /\ messages' = Append(messages, messages'[Len(messages')])
                   /\ messages'[Len(messages')].role = "assistant"
                   /\ messages'[Len(messages')].conversationId = r.conv
                   /\ messages'[Len(messages')].content = Concat(r.out)]_vars

C13_Witness ==
    \E t \in Turns :
        /\ turn[t].pc = "ended" /\ turn[t].status = "done"
        /\ Len(turn[t].out) = 3 /\ Len(turn[t].out[2].content) = MaxReplyLen - ChunkSize
        /\ messages[Len(messages)].content = Text(turn[t].finalResponse)

\* The stream of the turn has been opened (routes.ts 106-112).
Opened(r) == r.status \in {"streaming", "done", "error"}

\* The positions of the terminators written to the turn's stream.
Terminators(r) == { k \in 1..Len(r.out) : r.out[k].done \/ r.out[k].error }

\* C14: every stream opened for a turn is terminated by exactly one
\* terminator, the done marker or an error marker in its place: never both,
\* never two, and no content chunk after it; no terminator is written while
\* the turn is still running, and nothing is written to a stream not opened.
C14_ExactlyOneTerminator ==
    \A t \in Turns :
        LET r == turn[t] IN
        /\ ~Opened(r) => r.out = <<>>
        /\ (Opened(r) /\ r.pc # "ended") => Terminators(r) = {}
        /\ (Opened(r) /\ r.pc = "ended")
              => /\ Terminators(r) = {Len(r.out)}
                 /\ r.out[Len(r.out)] = (IF r.status = "done" THEN DoneEvent ELSE ErrorEvent)

C14_Witness ==
    \E t \in Turns :
        /\ turn[t].pc = "ended" /\ turn[t].status = "error"
        /\ turn[t].out = <<ErrorEvent>> /\ Len(messages) = 3

\* C15: in a turn whose merged slots are complete and whose property search
\* returns zero properties, the reply is the no-match message and no follow-up
\* question is emitted: it is the reply streamed and saved, followed by done.
C15_NoMatchReplyOnZeroResults ==
    [][\A t \in Turns :
          LET r == turn[t] IN
          /\ (r.ret = "policy" /\ r.pc = "search" /\ turn'[t] # r
                /\ turn'[t].propertyResult.success /\ turn'[t].propertyResult.count = 0)
                => /\ Complete(r.mergedSlots)
                   /\ turn'[t].finalResponse = NoMatchReply
                   /\ turn'[t].pc = "stream"
          /\ (r.ret = "policy" /\ Streaming(r)
                /\ r.propertyResult.success /\ r.propertyResult.count = 0)
                => /\ r.finalResponse = NoMatchReply /\ r.finalResponse.kind # "ask"
                   /\ (turn'[t].pc = "ended"
                          => /\ turn'[t].status = "done"
                             /\ turn'[t].finalResponse = NoMatchReply
                             /\ messages'[Len(messages')].content = Text(NoMatchReply))]_vars

C15_Witness ==
    \E t \in Turns :
        /\ turn[t].ret = "policy" /\ turn[t].pc = "saveFinal"
        /\ Complete(turn[t].mergedSlots) /\ turn[t].nSearch = 1
        /\ turn[t].propertyResult.success /\ turn[t].propertyResult.count = 0
        /\ turn[t].finalResponse = NoMatchReply

\* The turn is inside a handler that waits on a store.
InHandler(r) == r.pc \in {"smGet", "smPut", "search"}

\* The arguments pass the handler's own validation.
ValidArgs(args) == args.isObject /\ args.slots \in Slots

\* A result envelope: success is a boolean, and a failure names its error.
Envelope(result) ==
    /\ result.success \in BOOLEAN
    /\ (~result.success => result.error # "")

\* C16: each of the four handlers returns an envelope with a boolean success
\* for every argument value (malformed and missing arguments included) and for
\* a failing store, and never throws to its caller (the turn goes on to store
\* the call, or to the missing-slot check, and is not ended by the catch); a
\* handler whose arguments fail validation writes to no store and makes no
\* property search.
C16_HandlersReturnEnvelopeAndNeverThrow ==
    [][\A t \in Turns :
          LET r == turn[t]
              q == turn'[t] IN
          /\ (r.pc = "model" /\ q.fn \in KnownFunctions)
                => /\ q.status = "streaming"
                   /\ q.pc \in {"saveCall", "smGet", "search"}
                   /\ (q.pc = "saveCall" => Envelope(q.result))
                   /\ (~ValidArgs(q.args) \/ (q.fn = "extract_intent_and_slots"
                                                   /\ q.args.intent \notin IntentValues))
                         => /\ q.pc = "saveCall" /\ ~q.result.success
                            /\ q.nSearch = 0 /\ UNCHANGED storeVars
          /\ (InHandler(r) /\ q # r)
                => /\ q.status = "streaming"
                   /\ (q.pc = "saveCall" => Envelope(q.result))
                   /\ (r.ret = "policy" /\ ~InHandler(q) /\ r.pc # "search")
                         => Envelope(q.saveResult)
                   /\ (r.ret = "policy" /\ r.pc = "search") => Envelope(q.propertyResult)
                   /\ (sessions' # sessions => ValidArgs(SaveArgs(r)))
                   /\ (q.nSearch # r.nSearch => SearchedSlots(r) \in Slots)]_vars

C16_Witness ==
    \E t \in Turns :
        /\ turn[t].fn = "save_memory" /\ turn[t].pc = "saveCall"
        /\ ValidArgs(turn[t].args)
        /\ turn[t].result = Failure("Failed to save memory")

\* C17: when the language-model call of a turn fails, the turn writes exactly
\* one error event and nothing else to its stream (no content chunk, no done
\* marker), ends the stream, leaves the stores as they were, and the model is
\* not called again: a turn calls the model at most once.
C17_ModelFailureOneErrorEvent ==
    [][\A t \in Turns :
          LET r == turn[t]
              q == turn'[t] IN
          /\ r.nModel <= 1
          /\ (r.pc = "model" => (r.nModel = 0 /\ r.out = <<>>))
          /\ (r.pc = "model" /\ q.status = "error")
                => /\ q.pc = "ended" /\ q.out = <<ErrorEvent>>
                   /\ UNCHANGED storeVars
          /\ (r.pc = "ended" => q = r)]_vars

C17_Witness ==
    \E t \in Turns :
        /\ turn[t].pc = "ended" /\ turn[t].status = "error"
        /\ turn[t].out = <<ErrorEvent>> /\ Len(messages) = 1
        /\ sessions[SessionOf(turn[t].conv)].exists

\* The turn has searched once, with its merged slots, and a failed search
\* gave the apology of routes.ts 199.
SearchedOnce(r) ==
    /\ r.nSearch = 1 /\ r.propertyResult # NoResult
    /\ (r.propertyResult.success => r.propertyResult.slots = r.mergedSlots)
    /\ (~r.propertyResult.success => r.finalResponse = NoMatchReply)

\* C18: in a turn whose merged slots are complete, property search is invoked
\* exactly once with the full merged slots; a failed search is not retried and
\* the reply is the apology message, streamed and ended by the done marker.
C18_CompleteSlotsSearchedOnce ==
    \A t \in Turns :
        LET r == turn[t] IN
        (ValidExtraction(r) /\ r.ret = "policy" /\ Streaming(r)
            /\ Complete(r.mergedSlots))
          => SearchedOnce(r)

\* C18 apart from the falsy values getMissingSlots counts as missing: a turn
\* whose merged slots have no missing slot by getMissingSlots searches once.
C18_SearchedOnceWhenNoneMissing ==
    \A t \in Turns :
        LET r == turn[t] IN
        (ValidExtraction(r) /\ r.ret = "policy" /\ Streaming(r)
            /\ getMissingSlots(r.mergedSlots) = <<>>)
          => SearchedOnce(r)

----------------------------------------------------------------------------
\* MemStorage alone.

\* The rows stored for a conversation, as a set.
RowsOf(msgs, id) ==
    { msgs[k] : k \in { j \in 1..Len(msgs) : msgs[j] # NoMessage /\ msgs[j].conversationId = id } }

\* C19: deleteConversation(id) removes the conversation and every message
\* whose conversationId is id, and leaves every other conversation and every
\* message of another conversation unchanged (the id counters too);
\* afterwards getMessages(id) is empty.
C19_DeleteConversationCascades ==
    [][\A id \in StoredConvIds :
          DeleteConversation(id)
            => /\ ~HasConversation(id)'
               /\ getMessages(id)' = <<>>
               /\ RowsOf(messages', id) = {}
               /\ Len(conversations') = Len(conversations)
               /\ Len(messages') = Len(messages)
               /\ \A c \in StoredConvIds \ {id} :
                     /\ HasConversation(c)' = HasConversation(c)
                     /\ getMessages(c)' = getMessages(c)
                     /\ \A k \in 1..Len(messages) :
                           (messages[k] # NoMessage /\ messages[k].conversationId = c)
                              => messages'[k] = messages[k]]_vars

C19_Witness ==
    /\ Len(conversations) = 2 /\ ~conversations[1] /\ conversations[2]
    /\ Len(messages) = MaxStoredMessages
    /\ messages[1] = NoMessage /\ messages[3] = NoMessage
    /\ messages[2] # NoMessage /\ messages[2].conversationId = 2
    /\ Len(getMessages(2)) = 1 /\ getMessages(1) = <<>>

----------------------------------------------------------------------------
\* C20: every turn that passes the content and conversation checks eventually
\* terminates its stream with the done marker or an error marker, provided
\* each awaited call (model, stores, property search) returns or fails.
\* Stated for the request the single-request runs follow.
C20_StreamEventuallyTerminated ==
    \A t \in {TheTurn} :
        (turn[t].pc = "saveUser")
            ~> ( /\ turn[t].pc = "ended" /\ turn[t].status \in {"done", "error"}
                 /\ Terminators(turn[t]) = {Len(turn[t].out)} )

C20_Witness ==
    \E t \in Turns :
        /\ turn[t].pc = "ended" /\ turn[t].status = "done"
        /\ turn[t].finalResponse = FoundReply
        /\ turn[t].out[Len(turn[t].out)] = DoneEvent

----------------------------------------------------------------------------
\* The kinds of the rows getMessages returns for a conversation, in the order
\* returned.
KindsOf(c) == [k \in 1..Len(getMessages(c)) |-> getMessages(c)[k].kind]

C22_SearchOnlyWhenNoneMissing ==
    [][\A t \in Turns :
          turn'[t].nSearch > turn[t].nSearch
            => getMissingSlots(SearchedSlots(turn[t])) = <<>>]_vars

\* C22 for the search the route itself makes after an extraction (routes.ts
\* 174-184): it is made only when no slot of the merged slots is missing.
C22_PolicySearchOnlyWhenNoneMissing ==
    [][\A t \in Turns :
          (turn[t].ret = "policy" /\ turn'[t].nSearch > turn[t].nSearch)
            => getMissingSlots(SearchedSlots(turn[t])) = <<>>]_vars

\* The step of the turn stores a final assistant message with text, after at
\* least one content chunk with text, and writes the done marker.
NonEmptyReply(r, q) ==
    /\ Text(r.finalResponse) # <<>>
    /\ \E k \in 1..Len(r.out) : r.out[k].content # <<>>
    /\ messages'[Len(messages')].kind = "final"
    /\ messages'[Len(messages')].content # <<>>
    /\ q.out[Len(q.out)] = DoneEvent

\* C23: every turn that ends with the done marker has a non-empty reply: at
\* least one non-empty content chunk has been streamed and the final assistant
\* message saved has non-empty content, whichever of the four functions (or
\* none) the model requested.
C23_DoneTurnHasNonEmptyReply ==
    [][\A t \in Turns :
          LET r == turn[t]
              q == turn'[t] IN
          (r.pc = "saveFinal" /\ q.pc = "ended" /\ q.status = "done"
              /\ r.fn \in KnownFunctions \cup {""})
            => NonEmptyReply(r, q)]_vars

\* C23 for the three functions the route has a branch for, and for a reply
\* without a function call (routes.ts 155-215).
C23_NonEmptyReplyUnlessSaveMemory ==
    [][\A t \in Turns :
          LET r == turn[t]
              q == turn'[t] IN
          (r.pc = "saveFinal" /\ q.pc = "ended" /\ q.status = "done"
              /\ r.fn \in (KnownFunctions \ {"save_memory"}) \cup {""})
            => NonEmptyReply(r, q)]_vars

\* The request is turned away: no message, no stream, no model call and no
\* session change.
Rejected(t, status) ==
    /\ turn'[t].pc = "ended" /\ turn'[t].status = status
    /\ ~Opened(turn'[t]) /\ turn'[t].out = <<>>
    /\ turn'[t].nModel = 0 /\ turn'[t].nSearch = 0
    /\ UNCHANGED storeVars

\* C24: a chat request whose content is missing or not a string is answered
\* 400, and one with text content for a conversation id the store does not
\* have is answered 404; in both cases no message is created, no stream is
\* opened, the model is not called and no session changes, then or later.
C24_RejectedRequestHasNoEffect ==
    [][\A t \in Turns :
          /\ \A c \in RequestedIds, content \in ContentValues :
                PostMessage(t, c, ContentAccepted(content))
                  => /\ content.type # "string" => Rejected(t, "400")
                     /\ (content.type = "string" /\ content.truthy /\ ~HasConversation(c))
                           => Rejected(t, "404")
          /\ turn[t].status \in {"400", "404"}
                => (turn[t].pc = "ended" /\ UNCHANGED <<turn, storeVars>>)]_vars

C24_Witness ==
    \E t \in Turns :
        /\ turn[t].pc = "ended" /\ turn[t].status = "404"
        /\ ~HasConversation(turn[t].conv)
        /\ messages = <<>> /\ turn[t].out = <<>> /\ turn[t].nModel = 0
        /\ \E s \in SessionIds : sessions[s].exists

----------------------------------------------------------------------------
\* The ids of the stored rows of conversation c that are not function results.
NonFunction(c) ==
    { k \in 1..Len(messages) :
        /\ messages[k] # NoMessage /\ messages[k].conversationId = c
        /\ messages[k].role # "function" }

C27_ClearMessagesKeepsSessionSlots ==
    [][/\ \A c \in StoredConvIds :
             ClearMessages(c)
               => /\ getMessages(c)' = <<>>
                  /\ RowsOf(messages', c) = {}
                  /\ conversations' = conversations /\ HasConversation(c)'
                  /\ Len(messages') = Len(messages)
                  /\ \A d \in StoredConvIds \ {c} :
                        /\ getMessages(d)' = getMessages(d)
                        /\ RowsOf(messages', d) = RowsOf(messages, d)
                  /\ sessions' = sessions
                  /\ turn' = turn
       /\ \A t \in Turns :
             LET r == turn[t]
                 q == turn'[t] IN
             (r.pc = "readSession" /\ q # r /\ q.status # "error")
               => /\ q.session = sessions[SessionOf(r.conv)]
                  /\ q.mergedSlots = (IF q.session.exists
                                         THEN mergeSlots(q.session.slots, r.result.slots)
                                         ELSE r.result.slots)
       /\ sessions' # sessions => \E t \in Turns : turn[t].pc = "smPut"]_vars

C27_Witness ==
    \E t \in Turns :
        LET r == turn[t] IN
        /\ r.ret = "policy" /\ r.pc = "search"
        /\ Len(messages) = 8 /\ Len(getMessages(r.conv)) = 3
        /\ \A k \in 1..5 : k # 2 => messages[k] = NoMessage
        /\ messages[2] # NoMessage /\ messages[2].conversationId = MaxStoredConversations
        /\ r.session = [exists |-> TRUE, slots |-> [CompleteSlots EXCEPT !.budget_min = Unset]]
        /\ r.result.slots = [EmptySlots EXCEPT !.budget_min = Some(MaxBudget)]
        /\ r.mergedSlots = CompleteSlots
        /\ sessions[SessionOf(r.conv)].slots = CompleteSlots

----------------------------------------------------------------------------
\* The chat page of the browser (chat.tsx): selecting a conversation, sending
\* messages, and the callbacks of the response streams in flight.

\* sendMessage calls the page makes at most.
MaxSends == 2

\* Content events one response stream carries at most.
MaxChunks == 2

\* Ids the sidebar can offer: 0 stands for "new conversation" (chat.tsx 30).
SidebarIds == 0..(MaxStoredConversations + MaxSends)

\* The sidebar lists the conversations stored so far; nothing is selected.
InitPage ==
    /\ page = [NewPage EXCEPT !.conversations = MaxStoredConversations]
    /\ InitServer
    /\ InitFunctionsIdle

\* chat.tsx 29-33
handleSelectConversation(id) ==
    /\ id \in 0..page.conversations
    /\ page' = [page EXCEPT !.selectedConversationId = id,
                            !.streamingMessage = <<>>,
                            !.isStreaming = FALSE]
    /\ UNCHANGED <<slotVars, serverVars>>

\* chat.tsx 60-64: the flag is set, the text emptied and sendMessage called
\* with the three callbacks; the call is the page's next stream.
sendMessageToConversation(p, conversationId) ==
    [p EXCEPT !.isStreaming = TRUE,
              !.streamingMessage = <<>>,
              !.streams = Append(@, [conversationId |-> conversationId,
                                     chunks |-> 0, open |-> TRUE])]

\* chat.tsx 35-58, offered by the input while it is not disabled (196-199):
\* without a selection a conversation is requested first, else the message is
\* sent to the selected conversation.
handleSendMessage ==
    /\ ~page.isStreaming
    /\ Len(page.streams) + page.creating + Len(page.timers) < MaxSends
    /\ page' = IF page.selectedConversationId = 0
                  THEN [page EXCEPT !.creating = @ + 1]
                  ELSE sendMessageToConversation(page, page.selectedConversationId)
    /\ UNCHANGED <<slotVars, serverVars>>

\* chat.tsx 39-46: createConversation resolves; the new conversation is
\* selected and the send scheduled 100 ms later.
ConversationCreated ==
    /\ page.creating > 0
    /\ LET id == page.conversations + 1 IN
       page' = [page EXCEPT !.creating = @ - 1, !.conversations = id,
                            !.selectedConversationId = id,
                            !.timers = Append(@, id)]
    /\ UNCHANGED <<slotVars, serverVars>>

\* chat.tsx 47-54: createConversation rejects
ConversationNotCreated ==
    /\ page.creating > 0
    /\ page' = [page EXCEPT !.creating = @ - 1,
                            !.toast = "Failed to create new conversation"]
    /\ UNCHANGED <<slotVars, serverVars>>

\* chat.tsx 43-45: the delayed send is made
TimerFires ==
    /\ page.timers # <<>>
    /\ page' = sendMessageToConversation([page EXCEPT !.timers = Tail(@)],
                                         Head(page.timers))
    /\ UNCHANGED <<slotVars, serverVars>>

\* sendMessage (lib/chat-api) reads the response of its request and calls the
\* callbacks it was given until the done or error event: the n-th call still
\* delivers.
Delivering(n) == n \in 1..Len(page.streams) /\ page.streams[n].open

\* chat.tsx 67-69: a content event of the n-th call; chunk k of call n is
\* written <<n, k>>.
OnChunk(n) ==
    /\ Delivering(n) /\ page.streams[n].chunks < MaxChunks
    /\ page' = [page EXCEPT
          !.streamingMessage = Append(@, <<n, page.streams[n].chunks + 1>>),
          !.streams[n].chunks = @ + 1]
    /\ UNCHANGED <<slotVars, serverVars>>

\* chat.tsx 70-74: the done event of the n-th call
OnComplete(n) ==
    /\ Delivering(n)
    /\ page' = [page EXCEPT !.isStreaming = FALSE, !.streamingMessage = <<>>,
                            !.streams[n].open = FALSE]
    /\ UNCHANGED <<slotVars, serverVars>>

\* chat.tsx 75-83: the error event of the n-th call
OnError(n) ==
    /\ Delivering(n)
    /\ page' = [page EXCEPT !.isStreaming = FALSE, !.streamingMessage = <<>>,
                            !.streams[n].open = FALSE,
                            !.toast = "error"]
    /\ UNCHANGED <<slotVars, serverVars>>

NextPage ==
    \/ \E id \in SidebarIds : handleSelectConversation(id)
    \/ handleSendMessage
    \/ ConversationCreated
    \/ ConversationNotCreated
    \/ TimerFires
    \/ \E n \in 1..MaxSends : OnChunk(n)
    \/ \E n \in 1..MaxSends : OnComplete(n)
    \/ \E n \in 1..MaxSends : OnError(n)

SpecPage == InitPage /\ [][NextPage]_vars

\* The page's most recent sendMessage call.
LatestSend == Len(page.streams)

\* C25: the streaming text shown to the user holds only chunks of the message
\* sent last: while the streaming flag is set every chunk of the text belongs
\* to the latest send, and a chunk, a completion or an error of an earlier
\* send, arriving while the latest send is in flight, neither changes the
\* streaming text nor resets the streaming flag.
C25_StreamingTextOfLatestSendOnly ==
    [][/\ page.isStreaming
             => \A k \in 1..Len(page.streamingMessage) :
                   page.streamingMessage[k][1] = LatestSend
       /\ \A n \in 1..MaxSends :
             (n < LatestSend /\ Delivering(LatestSend)
                 /\ (OnChunk(n) \/ OnComplete(n) \/ OnError(n)))
               => /\ page'.streamingMessage = page.streamingMessage
                  /\ page'.isStreaming = page.isStreaming]_vars

====
